---------------------------- MODULE Spec2Model ----------------------------
(***************************************************************************)
(* Model of the Simon memory game of src/Arduino.ino.                      *)
(*                                                                         *)
(* The program is one sequential flow (setup -> playGame -> ...) that      *)
(* blocks in polling loops.  The model cuts it into one action per stretch *)
(* of code between two points where the outside world is observable: a    *)
(* poll of the buttons pin, or a change of an LED that is followed by a    *)
(* delay.  The player is the environment: it changes the reading of the    *)
(* buttons pin at any time.  The LCD, the serial port and the piezo tone   *)
(* are not modelled; delays are modelled only by the order of the steps    *)
(* and by the onTime/delayTime arguments of playSequence.                  *)
(***************************************************************************)
EXTENDS Integers, Sequences, FiniteSets, TLC

(***************************************************************************)
(* Bound of the model: the longest Sequence a round may reach.  The loop   *)
(* of playGame is cut off when a level of this length has been completed.  *)
(***************************************************************************)
MaxLen == 2

(***************************************************************************)
(* Program constants.                                                      *)
(***************************************************************************)
NUM_LEDS == 4

BUTTON_ANALOG_VALS == <<512, 682, 767, 818>>

GAME_START_FLASHES == 3

GAME_OVER_FLASHES == 4

GAME_SPEEDS == <<1, 5, 10>>

\* Value read from the buttons pin while no button is pressed.
IdleReading == 0

\* The readings of the buttons pin the player can produce.
AnalogReadings == {IdleReading} \cup {BUTTON_ANALOG_VALS[j] : j \in 1..NUM_LEDS}

\* The values of a control index.
Controls == 0..(NUM_LEDS - 1)

(***************************************************************************)
(* Pure functions of the program.  C arrays are 0-based, TLA+ sequences    *)
(* 1-based: element x of a C array is element x+1 of the sequence.         *)
(***************************************************************************)

\* random(lo, hi) of the Arduino core: any value of lo .. hi-1.
Random(lo, hi) == lo..(hi - 1)

\* Index of the first occurrence of searchFor in array, -1 if there is none.
RECURSIVE findFrom(_, _, _, _)
findFrom(array, length, searchFor, j) ==
    IF j >= length THEN -1
    ELSE IF array[j + 1] = searchFor THEN j
    ELSE findFrom(array, length, searchFor, j + 1)

\* Variant of find that returns the position counted from 1.
findOneBased(array, length, searchFor) ==
    IF findFrom(array, length, searchFor, 0) = -1
      THEN -1
      ELSE findFrom(array, length, searchFor, 0) + 1

find(array, length, searchFor) == findFrom(array, length, searchFor, 0)

\* The button that the reading of the buttons pin stands for, -1 if none.
getButtonPressed(reading) == find(BUTTON_ANALOG_VALS, NUM_LEDS, reading)

\* Variant of generateSequence that draws from 0 .. numLEDs inclusive.
generateSequenceInclusive(length, numLEDs) == [1..length -> 0..numLEDs]

\* All sequences generateSequence(length, numLEDs) can return.
generateSequence(length, numLEDs) == [1..length -> Random(0, numLEDs)]

\* Variant of extendSequence that stores num before it copies, at index 0,
\* and copies the old elements behind it.
extendSequencePrepend(seq, len, n) ==
    [sequence    |-> [j \in 1..(len + 1) |-> IF j = 1 THEN n ELSE seq[j - 1]],
     sequenceLen |-> len + 1]

\* extendSequence: a new array of sequenceLen + 1 elements, the old elements
\* copied to the same indices, num stored at index sequenceLen.
extendSequence(seq, len, n) ==
    [sequence    |-> [j \in 1..(len + 1) |-> IF j <= len THEN seq[j] ELSE n],
     sequenceLen |-> len + 1]

\* Variant of LevelOnTime with the offset 1000 in place of 1150.
LevelOnTimeTight(s) == 1000 - s * 100

\* The tempo playLevel derives from the speed.
LevelOnTime(s) == 1150 - s * 100

LevelDelayTime(s) == 230 - s * 20

\* The fixed tempo endGame uses for the reveal.
RevealOnTime == 1000

RevealDelayTime == 250

\* The LEDs that are lit, as a set of indices.
turnOnLED(leds, index) == leds \cup {index}

turnOffLED(leds, index) == leds \ {index}

turnOnLEDs(leds) == leds \cup Controls

\* Variant of turnOffLEDs whose loop stops one LED short.
turnOffLEDsShort(leds) == leds \ (0..(NUM_LEDS - 2))

turnOffLEDs(leds) == leds \ Controls

VARIABLES
    analog,         \* environment: the current reading of the buttons pin
    pc,             \* position of the program
    phase,          \* state of the game cycle the program is in
    speed,          \* global speed
    sequence,       \* global sequence (the array it points to)
    sequenceLen,    \* global sequenceLen
    led,            \* set of LEDs that are on
    flash,          \* loop index of the last LEDLightShow call
    k,              \* loop index of playSequence
    onTime,         \* argument of the running playSequence (0: none running)
    delayTime,      \* argument of the running playSequence (0: none running)
    i,              \* loop index of playLevel, the replay cursor
    buttonPressed,  \* local of awaitButtonInput, its return value
    levelCompleted, \* local of playGame: what the last playLevel returned
    emitted,        \* history: <<control, onTime, delayTime>> of each flash
                    \*          of the last playSequence call of the round
    inputs,         \* history: the gestures playLevel has consumed
    heldOver,       \* history of the running awaitButtonInput: "held" while
                    \*          the button found down by its first poll is
                    \*          still down, "released" once that button has
                    \*          been let go, "none" otherwise
    reveals,        \* history: playSequence calls of endGame in this round
    chosen,         \* history: the button the difficulty gesture of this
                    \*          round returned, -1 before it
    num,            \* history: the argument of the last extendSequence call
                    \*          of this round, -1 before it
    calls,          \* history: the callbacks <<name, argument>> that the
                    \*          running (or just returned) awaitButtonInput
                    \*          has invoked, in order
    silenced,       \* history: the argument of each turnOffLED of the last
                    \*          playSequence call of the round
    levelsDone      \* history: the playLevel calls of this round that have
                    \*          returned true

vars == <<analog, pc, phase, speed, sequence, sequenceLen, led, flash, k,
          onTime, delayTime, i, buttonPressed, levelCompleted, emitted,
          inputs, heldOver, reveals, chosen, num, calls, silenced,
          levelsDone>>

gameVars == <<speed, sequence, sequenceLen>>

showVars == <<flash, k, onTime, delayTime, emitted, reveals>>

roundVars == <<chosen, num>>

logVars == <<calls, silenced, levelsDone>>

inputVars == <<i, buttonPressed, levelCompleted, inputs>>

(***************************************************************************)
(* The state when setup() reaches its game loop: the globals have their    *)
(* initialisers (speed = 5, sequence = {} i.e. no array, sequenceLen = -1),*)
(* the pins are outputs driven low, and the player may already hold a      *)
(* button.                                                                 *)
(***************************************************************************)
Init ==
    /\ analog \in AnalogReadings
    /\ pc = "setup"
    /\ phase = "Setup"
    /\ speed = 5
    /\ sequence = <<>>
    /\ sequenceLen = -1
    /\ led = {}
    /\ flash = 0
    /\ k = 0
    /\ onTime = 0
    /\ delayTime = 0
    /\ i = 0
    /\ buttonPressed = -1
    /\ levelCompleted = FALSE
    /\ emitted = <<>>
    /\ inputs = <<>>
    /\ heldOver = "none"
    /\ reveals = 0
    /\ chosen = -1
    /\ num = -1
    /\ calls = <<>>
    /\ silenced = <<>>
    /\ levelsDone = 0

(***************************************************************************)
(* The player.                                                             *)
(***************************************************************************)
Press(b) ==
    /\ getButtonPressed(analog) = -1
    /\ analog' = BUTTON_ANALOG_VALS[b + 1]
    /\ UNCHANGED <<pc, phase, led, heldOver>>
    /\ UNCHANGED <<gameVars, showVars, inputVars>>
    /\ UNCHANGED roundVars
    /\ UNCHANGED logVars

Release ==
    /\ getButtonPressed(analog) # -1
    /\ analog' = IdleReading
    /\ heldOver' = IF heldOver = "held" THEN "released" ELSE heldOver
    /\ UNCHANGED <<pc, phase, led>>
    /\ UNCHANGED <<gameVars, showVars, inputVars>>
    /\ UNCHANGED roundVars
    /\ UNCHANGED logVars

(***************************************************************************)
(* setup() and playGame().                                                 *)
(***************************************************************************)

\* playGame() up to the call of LEDLightShow: the Intro begins.
PlayGame ==
    /\ phase' = "Intro"
    /\ pc' = "LEDLightShow"
    /\ flash' = 0
    /\ emitted' = <<>>
    /\ reveals' = 0
    /\ chosen' = -1
    /\ num' = -1
    /\ UNCHANGED <<analog, led, k, onTime, delayTime, heldOver>>
    /\ UNCHANGED <<gameVars, inputVars>>
    /\ silenced' = <<>>
    /\ levelsDone' = 0
    /\ UNCHANGED calls

\* setup() enters its loop and calls playGame() for the first time.
Setup ==
    /\ pc = "setup"
    /\ PlayGame

\* Variant of SetupLoop for a setup() that calls playGame() once, without
\* the loop around it: setup() returns and the empty loop() runs for ever.
SetupNoLoop ==
    /\ pc = "delay"
    /\ pc' = "loop"
    /\ UNCHANGED <<analog, phase, led, heldOver>>
    /\ UNCHANGED <<gameVars, showVars, inputVars>>
    /\ UNCHANGED roundVars
    /\ UNCHANGED logVars

\* playGame() has returned: delay(1000), then the loop calls it again.
SetupLoop ==
    /\ pc = "delay"
    /\ PlayGame

(***************************************************************************)
(* LEDLightShow(tones, tonesLength): tonesLength flashes of all LEDs.      *)
(***************************************************************************)

\* The number of flashes of the light show of the current phase.
tonesLength ==
    IF phase = "GameOver" THEN GAME_OVER_FLASHES ELSE GAME_START_FLASHES

\* turnOnLEDs(tones[i]); delay(500)
LEDLightShowOn ==
    /\ pc = "LEDLightShow"
    /\ flash < tonesLength
    /\ led' = turnOnLEDs(led)
    /\ pc' = "LEDLightShowLit"
    /\ UNCHANGED <<analog, phase, heldOver>>
    /\ UNCHANGED <<gameVars, showVars, inputVars>>
    /\ UNCHANGED roundVars
    /\ UNCHANGED logVars

\* turnOffLEDs(); delay(500); i++
LEDLightShowOff ==
    /\ pc = "LEDLightShowLit"
    /\ led' = turnOffLEDs(led)
    /\ flash' = flash + 1
    /\ pc' = "LEDLightShow"
    /\ UNCHANGED <<analog, phase, heldOver, k, onTime, delayTime, emitted, reveals>>
    /\ UNCHANGED <<gameVars, inputVars>>
    /\ UNCHANGED roundVars
    /\ UNCHANGED logVars

\* The start flourish is over: delay(1000), selectDifficulty() shows its
\* prompt and calls awaitButtonInput.
PlayGameSelect ==
    /\ pc = "LEDLightShow"
    /\ flash >= tonesLength
    /\ phase = "Intro"
    /\ phase' = "DifficultySelect"
    /\ pc' = "awaitButtonInput"
    /\ UNCHANGED <<analog, led, heldOver, flash, k, onTime, delayTime, emitted, reveals>>
    /\ UNCHANGED <<gameVars, inputVars>>
    /\ UNCHANGED roundVars
    /\ UNCHANGED logVars

\* Variant of EndGameReveal that plays the reveal at the tempo of the levels.
EndGameRevealAtSpeed ==
    /\ pc = "LEDLightShow"
    /\ flash >= tonesLength
    /\ phase = "GameOver"
    /\ pc' = "playSequence"
    /\ k' = 0
    /\ onTime' = LevelOnTime(speed)
    /\ delayTime' = LevelDelayTime(speed)
    /\ emitted' = <<>>
    /\ reveals' = reveals + 1
    /\ UNCHANGED <<analog, phase, led, heldOver, flash>>
    /\ UNCHANGED <<gameVars, inputVars>>
    /\ UNCHANGED roundVars
    /\ silenced' = <<>>
    /\ UNCHANGED <<calls, levelsDone>>

\* The game-over flourish is over: delay(1000), endGame() calls
\* playSequence(1000, 250).
EndGameReveal ==
    /\ pc = "LEDLightShow"
    /\ flash >= tonesLength
    /\ phase = "GameOver"
    /\ pc' = "playSequence"
    /\ k' = 0
    /\ onTime' = RevealOnTime
    /\ delayTime' = RevealDelayTime
    /\ emitted' = <<>>
    /\ reveals' = reveals + 1
    /\ UNCHANGED <<analog, phase, led, heldOver, flash>>
    /\ UNCHANGED <<gameVars, inputVars>>
    /\ UNCHANGED roundVars
    /\ silenced' = <<>>
    /\ UNCHANGED <<calls, levelsDone>>

(***************************************************************************)
(* awaitButtonInput(onPress, onRelease), always called with turnOnLED and  *)
(* turnOffLED.  A poll that does not end a polling loop leaves the state   *)
(* as it is (delay(BUTTON_POLLING_INTERVAL), poll again), so each loop is  *)
(* one action that is enabled when its poll reads what the loop waits for. *)
(***************************************************************************)

\* What awaitButtonRelease waits for: a poll that reports no button.
awaitButtonRelease == getButtonPressed(analog) = -1

\* Variant of awaitButtonPress that gives up waiting and returns what the
\* poll reported.
awaitButtonPressTimeout == TRUE

\* What awaitButtonPress waits for: a poll that reports a button.
awaitButtonPress == getButtonPressed(analog) # -1

\* Variant of AfterFirstPoll without the wait for the release of a button
\* that is already down.
AfterFirstPollNoWait(held) == "awaitButtonPress"

\* Where awaitButtonInput goes after its first poll.
AfterFirstPoll(held) ==
    IF held THEN "awaitHeldRelease" ELSE "awaitButtonPress"

\* if (getButtonPressed() != -1) awaitButtonRelease();
AwaitButtonInput ==
    /\ pc = "awaitButtonInput"
    /\ pc' = AfterFirstPoll(getButtonPressed(analog) # -1)
    /\ heldOver' = IF getButtonPressed(analog) # -1 THEN "held" ELSE "none"
    /\ UNCHANGED <<analog, phase, led>>
    /\ UNCHANGED <<gameVars, showVars, inputVars>>
    /\ UNCHANGED roundVars
    /\ UNCHANGED logVars

\* The awaitButtonRelease() of a button held before the call returns.
AwaitHeldRelease ==
    /\ pc = "awaitHeldRelease"
    /\ awaitButtonRelease
    /\ pc' = "awaitButtonPress"
    /\ UNCHANGED <<analog, phase, led, heldOver>>
    /\ UNCHANGED <<gameVars, showVars, inputVars>>
    /\ UNCHANGED roundVars
    /\ UNCHANGED logVars

\* awaitButtonPress() returns the button polled; onPress(buttonPressed).
AwaitPress ==
    /\ pc = "awaitButtonPress"
    /\ awaitButtonPress
    /\ buttonPressed' = getButtonPressed(analog)
    /\ led' = turnOnLED(led, getButtonPressed(analog))
    /\ pc' = "awaitButtonRelease"
    /\ UNCHANGED <<analog, phase, heldOver, i, levelCompleted, inputs>>
    /\ UNCHANGED <<gameVars, showVars>>
    /\ UNCHANGED roundVars
    /\ calls' = Append(calls, <<"onPress", buttonPressed'>>)
    /\ UNCHANGED <<silenced, levelsDone>>

\* Variant of AwaitRelease that passes to onRelease what the poll reports at
\* the release, not the button that was pressed.
AwaitReleaseCurrent ==
    /\ pc = "awaitButtonRelease"
    /\ awaitButtonRelease
    /\ led' = turnOffLED(led, getButtonPressed(analog))
    /\ pc' = "awaitReturned"
    /\ heldOver' = "none"
    /\ UNCHANGED <<analog, phase>>
    /\ UNCHANGED <<gameVars, showVars, inputVars>>
    /\ UNCHANGED roundVars
    /\ calls' = Append(calls, <<"onRelease", getButtonPressed(analog)>>)
    /\ UNCHANGED <<silenced, levelsDone>>

\* awaitButtonRelease() returns; onRelease(buttonPressed); return.
AwaitRelease ==
    /\ pc = "awaitButtonRelease"
    /\ awaitButtonRelease
    /\ led' = turnOffLED(led, buttonPressed)
    /\ pc' = "awaitReturned"
    /\ heldOver' = "none"
    /\ UNCHANGED <<analog, phase>>
    /\ UNCHANGED <<gameVars, showVars, inputVars>>
    /\ UNCHANGED roundVars
    /\ calls' = Append(calls, <<"onRelease", buttonPressed>>)
    /\ UNCHANGED <<silenced, levelsDone>>

(***************************************************************************)
(* selectDifficulty() after the gesture, and the rest of playGame().       *)
(***************************************************************************)

\* Variant of SelectedSpeeds whose auto difficulty draws random(0, 10).
SelectedSpeedsFromZero(button) ==
    IF button = 3 THEN Random(0, 10) ELSE {GAME_SPEEDS[button + 1]}

\* Variant of SelectedSpeeds whose auto difficulty draws random(1, 12).
SelectedSpeedsToEleven(button) ==
    IF button = 3 THEN Random(1, 12) ELSE {GAME_SPEEDS[button + 1]}

\* The speeds selectDifficulty can set for the button the gesture returned.
SelectedSpeeds(button) ==
    IF button = 3 THEN Random(1, 11) ELSE {GAME_SPEEDS[button + 1]}

SelectDifficulty ==
    /\ pc = "awaitReturned"
    /\ phase = "DifficultySelect"
    /\ speed' \in SelectedSpeeds(buttonPressed)
    /\ pc' = "generateSequence"
    /\ chosen' = buttonPressed
    /\ UNCHANGED <<analog, phase, led, heldOver, sequence, sequenceLen, num>>
    /\ UNCHANGED <<showVars, inputVars>>
    /\ calls' = <<>>
    /\ UNCHANGED <<silenced, levelsDone>>

\* Variant of GenerateSequence that creates a Sequence only when there is
\* none yet, and otherwise goes on with the one of the round before.
GenerateSequenceOnce ==
    /\ pc = "generateSequence"
    /\ IF sequenceLen < 1
         THEN /\ sequence' \in generateSequence(1, NUM_LEDS)
              /\ sequenceLen' = 1
         ELSE UNCHANGED <<sequence, sequenceLen>>
    /\ phase' = "Level"
    /\ pc' = "playLevel"
    /\ buttonPressed' = -1
    /\ UNCHANGED <<analog, led, heldOver, speed, roundVars>>
    /\ UNCHANGED <<showVars, i, levelCompleted, inputs>>
    /\ UNCHANGED logVars

\* Variant of GenerateSequence that starts the round with an empty Sequence.
GenerateSequenceEmpty ==
    /\ pc = "generateSequence"
    /\ sequence' \in generateSequence(0, NUM_LEDS)
    /\ sequenceLen' = 0
    /\ phase' = "Level"
    /\ pc' = "playLevel"
    /\ buttonPressed' = -1
    /\ UNCHANGED <<analog, led, heldOver, speed, roundVars>>
    /\ UNCHANGED <<showVars, i, levelCompleted, inputs>>
    /\ UNCHANGED logVars

\* sequence = generateSequence(1, NUM_LEDS); sequenceLen = 1; delay(1000);
\* the level loop is entered.
GenerateSequence ==
    /\ pc = "generateSequence"
    /\ sequence' \in generateSequence(1, NUM_LEDS)
    /\ sequenceLen' = 1
    /\ phase' = "Level"
    /\ pc' = "playLevel"
    /\ buttonPressed' = -1
    /\ UNCHANGED <<analog, led, heldOver, speed, roundVars>>
    /\ UNCHANGED <<showVars, i, levelCompleted, inputs>>
    /\ UNCHANGED logVars

\* Variant of AfterLevel without the break: every level is followed by the
\* next one.
AfterLevelNoBreak(completed) == "extend"

\* Variant of AfterLevel with the test of levelCompleted inverted.
AfterLevelInverted(completed) == IF completed THEN "endGame" ELSE "extend"

\* What playGame does with the value playLevel returned.
AfterLevel(completed) == IF completed THEN "extend" ELSE "endGame"

\* if (!levelCompleted) break; extendSequence(random(0, NUM_LEDS));
\* delay(1000); next level.
PlayGameExtend ==
    /\ pc = "levelReturned"
    /\ AfterLevel(levelCompleted) = "extend"
    /\ sequenceLen < MaxLen
    /\ \E n \in Random(0, NUM_LEDS) :
          /\ sequence' = extendSequence(sequence, sequenceLen, n).sequence
          /\ sequenceLen' = extendSequence(sequence, sequenceLen, n).sequenceLen
          /\ num' = n
    /\ pc' = "playLevel"
    /\ inputs' = <<>>
    /\ i' = 0
    /\ levelCompleted' = FALSE
    /\ UNCHANGED <<analog, phase, led, heldOver, speed, chosen>>
    /\ UNCHANGED <<showVars, buttonPressed>>
    /\ UNCHANGED logVars

\* break; endGame() shows "Game over!!!" and calls LEDLightShow.
PlayGameEnd ==
    /\ pc = "levelReturned"
    /\ AfterLevel(levelCompleted) = "endGame"
    /\ phase' = "GameOver"
    /\ pc' = "LEDLightShow"
    /\ flash' = 0
    /\ inputs' = <<>>
    /\ i' = 0
    /\ UNCHANGED <<analog, led, heldOver, k, onTime, delayTime, emitted, reveals>>
    /\ UNCHANGED <<gameVars, buttonPressed, levelCompleted>>
    /\ UNCHANGED roundVars
    /\ UNCHANGED logVars

(***************************************************************************)
(* playLevel() and playSequence(onTime, delayTime).                        *)
(***************************************************************************)

\* Variant of PlayLevel that raises the speed, up to 10, with every level.
PlayLevelFaster ==
    /\ pc = "playLevel"
    /\ speed' = IF speed < 10 THEN speed + 1 ELSE speed
    /\ onTime' = LevelOnTime(speed')
    /\ delayTime' = LevelDelayTime(speed')
    /\ k' = 0
    /\ emitted' = <<>>
    /\ inputs' = <<>>
    /\ pc' = "playSequence"
    /\ UNCHANGED <<analog, phase, led, heldOver, flash, reveals>>
    /\ UNCHANGED <<sequence, sequenceLen, i, buttonPressed, levelCompleted>>
    /\ UNCHANGED roundVars
    /\ silenced' = <<>>
    /\ UNCHANGED <<calls, levelsDone>>

\* playLevel() up to its call of playSequence.
PlayLevel ==
    /\ pc = "playLevel"
    /\ onTime' = LevelOnTime(speed)
    /\ delayTime' = LevelDelayTime(speed)
    /\ k' = 0
    /\ emitted' = <<>>
    /\ inputs' = <<>>
    /\ pc' = "playSequence"
    /\ UNCHANGED <<analog, phase, led, heldOver, flash, reveals>>
    /\ UNCHANGED <<gameVars, i, buttonPressed, levelCompleted>>
    /\ UNCHANGED roundVars
    /\ silenced' = <<>>
    /\ UNCHANGED <<calls, levelsDone>>

\* turnOnLED(sequence[i]); delay(onTime)
PlaySequenceOn ==
    /\ pc = "playSequence"
    /\ k < sequenceLen
    /\ led' = turnOnLED(led, sequence[k + 1])
    /\ emitted' = Append(emitted, <<sequence[k + 1], onTime, delayTime>>)
    /\ pc' = "playSequenceLit"
    /\ UNCHANGED <<analog, phase, heldOver, flash, k, onTime, delayTime, reveals>>
    /\ UNCHANGED <<gameVars, inputVars>>
    /\ UNCHANGED roundVars
    /\ UNCHANGED logVars

\* Variant of PlaySequenceOff that polls the buttons after each flash and
\* takes a button that is down as a request to play faster.
PlaySequenceOffPolling ==
    /\ pc = "playSequenceLit"
    /\ led' = turnOffLED(led, sequence[k + 1])
    /\ k' = k + 1
    /\ pc' = "playSequence"
    /\ speed' = IF getButtonPressed(analog) # -1 /\ speed < 10
                  THEN speed + 1
                  ELSE speed
    /\ UNCHANGED <<analog, phase, heldOver, flash, onTime, delayTime, emitted, reveals>>
    /\ UNCHANGED <<sequence, sequenceLen, inputVars>>
    /\ UNCHANGED roundVars
    /\ silenced' = Append(silenced, sequence[k + 1])
    /\ UNCHANGED <<calls, levelsDone>>

\* turnOffLED(sequence[i]); delay(delayTime); i++
PlaySequenceOff ==
    /\ pc = "playSequenceLit"
    /\ led' = turnOffLED(led, sequence[k + 1])
    /\ k' = k + 1
    /\ pc' = "playSequence"
    /\ UNCHANGED <<analog, phase, heldOver, flash, onTime, delayTime, emitted, reveals>>
    /\ UNCHANGED <<gameVars, inputVars>>
    /\ UNCHANGED roundVars
    /\ silenced' = Append(silenced, sequence[k + 1])
    /\ UNCHANGED <<calls, levelsDone>>

\* Variant of PlayLevelReplay for a playback loop that stops one element
\* short of the end of the Sequence.
PlayLevelReplayEarly ==
    /\ pc = "playSequence"
    /\ k >= sequenceLen - 1
    /\ phase = "Level"
    /\ i' = 0
    /\ k' = 0
    /\ onTime' = 0
    /\ delayTime' = 0
    /\ pc' = "replay"
    /\ UNCHANGED <<analog, phase, led, heldOver, flash, emitted, reveals>>
    /\ UNCHANGED <<gameVars, buttonPressed, levelCompleted, inputs>>
    /\ UNCHANGED roundVars
    /\ UNCHANGED logVars

\* playSequence returns to playLevel: "YOUR TURN!!!", the replay loop starts.
PlayLevelReplay ==
    /\ pc = "playSequence"
    /\ k >= sequenceLen
    /\ phase = "Level"
    /\ i' = 0
    /\ k' = 0
    /\ onTime' = 0
    /\ delayTime' = 0
    /\ pc' = "replay"
    /\ UNCHANGED <<analog, phase, led, heldOver, flash, emitted, reveals>>
    /\ UNCHANGED <<gameVars, buttonPressed, levelCompleted, inputs>>
    /\ UNCHANGED roundVars
    /\ UNCHANGED logVars

\* playSequence returns to endGame, endGame to playGame, playGame to setup.
EndGameReturn ==
    /\ pc = "playSequence"
    /\ k >= sequenceLen
    /\ phase = "GameOver"
    /\ k' = 0
    /\ onTime' = 0
    /\ delayTime' = 0
    /\ pc' = "delay"
    /\ UNCHANGED <<analog, phase, led, heldOver, flash, emitted, reveals>>
    /\ UNCHANGED <<gameVars, inputVars>>
    /\ UNCHANGED roundVars
    /\ UNCHANGED logVars

\* for (...; i < sequenceLen; ...) awaitButtonInput(turnOnLED, turnOffLED)
PlayLevelAwait ==
    /\ pc = "replay"
    /\ i < sequenceLen
    /\ pc' = "awaitButtonInput"
    /\ UNCHANGED <<analog, phase, led, heldOver>>
    /\ UNCHANGED <<gameVars, showVars, inputVars>>
    /\ UNCHANGED roundVars
    /\ UNCHANGED logVars

\* The loop is over: return true.
PlayLevelComplete ==
    /\ pc = "replay"
    /\ i >= sequenceLen
    /\ levelCompleted' = TRUE
    /\ pc' = "levelReturned"
    /\ UNCHANGED <<analog, phase, led, heldOver, i, buttonPressed, inputs>>
    /\ UNCHANGED <<gameVars, showVars>>
    /\ UNCHANGED roundVars
    /\ levelsDone' = levelsDone + 1
    /\ UNCHANGED <<calls, silenced>>

\* Variant of Mismatch that compares every gesture with sequence[0].
MismatchFirst(playerInput, seq, cursor) == playerInput # seq[1]

\* Whether the gesture playerInput fails the level at cursor.
Mismatch(playerInput, seq, cursor) == playerInput # seq[cursor + 1]

\* if (playerInput != sequence[i]) return false;  else i++
PlayLevelCompare ==
    /\ pc = "awaitReturned"
    /\ phase = "Level"
    /\ inputs' = Append(inputs, buttonPressed)
    /\ IF Mismatch(buttonPressed, sequence, i)
         THEN /\ levelCompleted' = FALSE
              /\ pc' = "levelReturned"
              /\ i' = i
         ELSE /\ i' = i + 1
              /\ pc' = "replay"
              /\ levelCompleted' = levelCompleted
    /\ buttonPressed' = -1
    /\ UNCHANGED <<analog, phase, led, heldOver>>
    /\ UNCHANGED <<gameVars, showVars>>
    /\ UNCHANGED roundVars
    /\ calls' = <<>>
    /\ UNCHANGED <<silenced, levelsDone>>

(***************************************************************************)
(* The specification.                                                      *)
(***************************************************************************)
Player == (\E b \in Controls : Press(b)) \/ Release

Program ==
    \/ Setup
    \/ SetupLoop
    \/ LEDLightShowOn
    \/ LEDLightShowOff
    \/ PlayGameSelect
    \/ EndGameReveal
    \/ AwaitButtonInput
    \/ AwaitHeldRelease
    \/ AwaitPress
    \/ AwaitRelease
    \/ SelectDifficulty
    \/ GenerateSequence
    \/ PlayGameExtend
    \/ PlayGameEnd
    \/ PlayLevel
    \/ PlaySequenceOn
    \/ PlaySequenceOff
    \/ PlayLevelReplay
    \/ EndGameReturn
    \/ PlayLevelAwait
    \/ PlayLevelComplete
    \/ PlayLevelCompare

Next == Program \/ Player

Spec == Init /\ [][Next]_vars

\* The program runs whenever it can take a step: it is the only flow of
\* control of the microcontroller, and never stops by itself.
FairSpec == Spec /\ WF_vars(Program)

TypeOK ==
    /\ analog \in AnalogReadings
    /\ phase \in {"Setup", "Intro", "DifficultySelect", "Level", "GameOver"}
    /\ speed \in 1..10
    /\ sequenceLen \in {-1} \cup 1..MaxLen
    /\ sequence \in UNION {[1..n -> Controls] : n \in 0..MaxLen}
    /\ led \subseteq Controls
    /\ buttonPressed \in {-1} \cup Controls
    /\ levelCompleted \in BOOLEAN
    /\ heldOver \in {"none", "held", "released"}
    /\ flash \in 0..GAME_OVER_FLASHES
    /\ k \in 0..MaxLen
    /\ i \in 0..MaxLen
    /\ Len(inputs) <= MaxLen
    /\ Len(emitted) <= MaxLen
    /\ reveals \in 0..1
    /\ chosen \in {-1} \cup Controls
    /\ num \in {-1} \cup Controls
    /\ Len(calls) <= 2
    /\ Len(silenced) <= MaxLen
    /\ levelsDone \in 0..MaxLen

(***************************************************************************)
(* Properties.                                                             *)
(***************************************************************************)

\* The positions of playLevel's replay loop.
InReplay ==
    /\ phase = "Level"
    /\ pc \in {"replay", "awaitButtonInput", "awaitHeldRelease",
               "awaitButtonPress", "awaitButtonRelease", "awaitReturned"}

\* s is the sequence of the first n elements of t.
IsPrefix(s, n, t) ==
    /\ Len(s) = n
    /\ n <= Len(t)
    /\ \A j \in 1..n : s[j] = t[j]

Min(a, b) == IF a <= b THEN a ELSE b

\* C1: the replay of a level is prefix-exact.  While the replay runs, the
\* cursor i is the number of gestures consumed and every one of them
\* matched (so the cursor started at 0 and advanced by one per match).  When
\* playLevel has returned true, the n gestures consumed are the Sequence;
\* when it has returned false, the cursor is at the first index whose
\* gesture differs, all gestures before it matched, and that gesture was the
\* last one consumed.  In both cases min(i+1, n) gestures were consumed.
C1_PrefixExactReplay ==
    /\ InReplay =>
          /\ 0 <= i /\ i <= sequenceLen
          /\ IsPrefix(inputs, i, sequence)
    /\ pc = "levelReturned" /\ levelCompleted =>
          /\ i = sequenceLen
          /\ inputs = sequence
    /\ pc = "levelReturned" /\ ~levelCompleted =>
          /\ 0 <= i /\ i < sequenceLen
          /\ Len(inputs) = i + 1
          /\ \A j \in 1..i : inputs[j] = sequence[j]
          /\ inputs[i + 1] # sequence[i + 1]
    /\ pc = "levelReturned" => Len(inputs) = Min(i + 1, sequenceLen)

\* C1 witness: a level of two elements has failed at cursor 1, after one
\* matching gesture.
C1_Witness ==
    /\ pc = "levelReturned"
    /\ ~levelCompleted
    /\ sequenceLen = 2
    /\ i = 1
    /\ Len(inputs) = 2

\* A step that changes the Sequence or its length.
SequenceChanges == sequence' # sequence \/ sequenceLen' # sequenceLen

\* C2: from the first level of a round on, the Sequence changes only by one
\* element appended at its end, in the step that follows a level that
\* returned true; otherwise the only step that changes it is the creation
\* of the Sequence of a new round, at the end of difficulty selection.
C2_OnlyAppendAfterComplete ==
    [][SequenceChanges =>
          \/ /\ phase = "DifficultySelect"
             /\ pc = "generateSequence"
          \/ /\ phase = "Level"
             /\ pc = "levelReturned"
             /\ levelCompleted
             /\ sequenceLen' = sequenceLen + 1
             /\ Len(sequence') = Len(sequence) + 1
             /\ SubSeq(sequence', 1, Len(sequence)) = sequence]_vars

\* C2 witness: the Sequence of a round has grown to two elements and the
\* level that plays them is about to begin.
C2_Witness ==
    /\ pc = "playLevel"
    /\ phase = "Level"
    /\ sequenceLen = 2
    /\ Len(sequence) = 2

LevelEntry == pc # "playLevel" /\ pc' = "playLevel"

\* C4: the game cycle takes only the transitions Setup -> Intro ->
\* DifficultySelect -> Level -> (Level | GameOver) -> Intro.  DifficultySelect
\* is entered only from Intro, a level only from DifficultySelect or from a
\* level that returned true, GameOver only from a level that returned false,
\* Intro only at start-up or from GameOver.
C4_PhaseTransitions ==
    [][/\ phase' # phase =>
             <<phase, phase'>> \in {<<"Setup", "Intro">>,
                                    <<"Intro", "DifficultySelect">>,
                                    <<"DifficultySelect", "Level">>,
                                    <<"Level", "GameOver">>,
                                    <<"GameOver", "Intro">>}
       /\ LevelEntry =>
             /\ phase' = "Level"
             /\ \/ phase = "DifficultySelect"
                \/ phase = "Level" /\ pc = "levelReturned" /\ levelCompleted
       /\ phase' = "GameOver" /\ phase # "GameOver" =>
             pc = "levelReturned" /\ ~levelCompleted
       /\ phase' = "Intro" /\ phase = "GameOver" => pc = "delay"]_vars

\* C4 witness: a round went through Intro, DifficultySelect, a level that
\* was completed and a level that failed, and is now in GameOver.
C4_Witness ==
    /\ phase = "GameOver"
    /\ pc = "LEDLightShowLit"
    /\ sequenceLen = 2

\* The program is blocked in a polling loop of awaitButtonInput.
Waiting == pc \in {"awaitHeldRelease", "awaitButtonPress", "awaitButtonRelease"}

\* The state at which the model cuts the level loop off.
CutOff == pc = "levelReturned" /\ levelCompleted /\ sequenceLen >= MaxLen

\* C5: once the round is in GameOver, the program gets back to the Intro of
\* a new round by its own steps alone; and no state is a deadlock: the
\* program can take a step, unless it waits in a polling loop, and then the
\* player can.
C5_GameOverLeadsToIntro ==
    /\ (phase = "GameOver") ~> (phase = "Intro")
    /\ [](~CutOff => (ENABLED Program \/ (Waiting /\ ENABLED Player)))
    /\ [](phase = "GameOver" => ENABLED Program)

\* C5 witness: the Intro of a round that follows a GameOver (a Sequence of
\* an earlier round exists).
C5_Witness ==
    /\ phase = "Intro"
    /\ pc = "LEDLightShowLit"
    /\ sequenceLen >= 1

\* C6: the difficulty gesture sets the speed: button 0 gives 1, button 1
\* gives 5, button 2 gives 10, button 3 gives a value of 1..10, and every
\* value of 1..10 is possible for it.  The speed is committed when
\* selectDifficulty returns, and it is the speed of the round's levels.
C6_DifficultyMapping ==
    /\ pc = "awaitReturned" /\ phase = "DifficultySelect" /\ buttonPressed = 3 =>
          \A s \in 1..10 : ENABLED (SelectDifficulty /\ speed' = s)
    /\ pc = "generateSequence" => chosen = buttonPressed
    /\ pc = "generateSequence" \/ phase = "Level" =>
          /\ chosen \in 0..3
          /\ chosen = 0 => speed = 1
          /\ chosen = 1 => speed = 5
          /\ chosen = 2 => speed = 10
          /\ chosen = 3 => speed \in 1..10
    /\ phase = "Level" /\ pc \in {"playSequence", "playSequenceLit"} =>
          /\ onTime = LevelOnTime(speed)
          /\ delayTime = LevelDelayTime(speed)

\* C6 witness: auto difficulty was chosen, the speed drawn is 10 and the
\* first flash of the first level is on.
C6_Witness ==
    /\ phase = "Level"
    /\ pc = "playSequenceLit"
    /\ sequenceLen = 1
    /\ chosen = 3
    /\ speed = 10

\* C7: a press that was already down when awaitButtonInput was invoked is
\* never the gesture it returns.  The wait for a press begins only in a
\* step whose poll reports no button, and the press that is detected is not
\* the one found down by the first poll: that button has been released
\* since, so whatever is down now was pressed after the release.
C7_HeldOverNotCounted ==
    [][/\ pc # "awaitButtonPress" /\ pc' = "awaitButtonPress" =>
             getButtonPressed(analog) = -1
       /\ pc = "awaitButtonPress" /\ pc' # "awaitButtonPress" =>
             /\ heldOver # "held"
             /\ getButtonPressed(analog) # -1
             /\ buttonPressed' = getButtonPressed(analog)]_vars

\* C7 witness: a button was down when awaitButtonInput was invoked, it was
\* released, and a press after that release has been detected.
C7_Witness ==
    /\ pc = "awaitButtonRelease"
    /\ heldOver = "released"
    /\ buttonPressed \in Controls

\* The positions inside awaitButtonInput.
Awaiting ==
    pc \in {"awaitButtonInput", "awaitHeldRelease", "awaitButtonPress",
            "awaitButtonRelease"}

\* C8: there is no timeout.  A step taken while awaitButtonInput waits for a
\* press and the reading is none, or waits for a release and a button is
\* down, leaves the program where it is; no step inside awaitButtonInput
\* changes the phase, the Sequence, the speed or the replay cursor; and
\* awaitButtonInput is left only from the wait for the release of a press it
\* has detected, in a step whose poll reports no button.
C8_NoTimeout ==
    [][/\ pc = "awaitButtonPress" /\ getButtonPressed(analog) = -1 => pc' = pc
       /\ pc \in {"awaitHeldRelease", "awaitButtonRelease"}
             /\ getButtonPressed(analog) # -1 => pc' = pc
       /\ Awaiting => UNCHANGED <<phase, sequence, sequenceLen, speed, i>>
       /\ Awaiting /\ pc' \notin {"awaitButtonInput", "awaitHeldRelease",
                                  "awaitButtonPress", "awaitButtonRelease"} =>
             /\ pc = "awaitButtonRelease"
             /\ pc' = "awaitReturned"
             /\ buttonPressed \in Controls
             /\ getButtonPressed(analog) = -1]_vars

\* C8 witness: the second gesture of a level is awaited and no button is
\* down.
C8_Witness ==
    /\ pc = "awaitButtonPress"
    /\ phase = "Level"
    /\ i = 1
    /\ getButtonPressed(analog) = -1

\* The flashes playSequence(on, gap) emits for the first n elements.
Flashes(n, on, gap) == [j \in 1..n |-> <<sequence[j], on, gap>>]

\* C9: in GameOver, after the four flashes of the flourish, the Sequence is
\* played once, all its elements in order, each with on-time 1000 and gap
\* 250, whatever the speed is.
C9_RevealAtFixedTempo ==
    /\ phase = "GameOver" /\ pc \in {"playSequence", "playSequenceLit"} =>
          /\ flash = GAME_OVER_FLASHES
          /\ reveals = 1
          /\ onTime = 1000
          /\ delayTime = 250
          /\ Len(emitted) <= sequenceLen
          /\ emitted = Flashes(Len(emitted), 1000, 250)
    /\ phase = "GameOver" /\ pc \in {"LEDLightShow", "LEDLightShowLit"} =>
          reveals = 0
    /\ pc = "delay" =>
          /\ phase = "GameOver"
          /\ reveals = 1
          /\ sequenceLen = Len(sequence)
          /\ emitted = Flashes(sequenceLen, 1000, 250)

\* C9 witness: endGame has returned after the reveal of a Sequence of two
\* elements in a round of speed 10.
C9_Witness ==
    /\ pc = "delay"
    /\ sequenceLen = 2
    /\ speed = 10
    /\ Len(emitted) = 2

\* C10 as stated: during Intro and DifficultySelect the state holds no
\* Sequence and no speed of a round before: the globals are as at start-up.
C10_NothingCarriedOver ==
    phase \in {"Intro", "DifficultySelect"} /\ pc # "generateSequence" =>
        /\ sequenceLen = -1
        /\ sequence = <<>>
        /\ speed = 5

\* C10 amended: the Sequence and the speed of the round before stay in the
\* globals during Intro and DifficultySelect, but nothing is played from
\* them there, and both are replaced before the first level begins: the
\* first level of every round starts with a Sequence of length 1 and the
\* speed that this round's difficulty gesture selected.
C10_ReplacedBeforeFirstLevel ==
    /\ phase \in {"Intro", "DifficultySelect"} =>
          /\ emitted = <<>>
          /\ onTime = 0
          /\ delayTime = 0
          /\ num = -1
          /\ pc # "generateSequence" => chosen = -1
    /\ pc = "playLevel" /\ num = -1 =>
          /\ sequenceLen = 1
          /\ Len(sequence) = 1
          /\ chosen \in Controls
          /\ speed \in SelectedSpeeds(chosen)

\* C10 witness: in the DifficultySelect of a later round the new speed 1 is
\* committed while the Sequence of two elements of the round before is
\* still stored.
C10_Witness ==
    /\ phase = "DifficultySelect"
    /\ pc = "generateSequence"
    /\ sequenceLen = 2
    /\ chosen = 0
    /\ speed = 1

\* The positions inside playSequence.
InPlayback == pc \in {"playSequence", "playSequenceLit"}

\* C11: the on-time 1150 - speed*100 and the gap 230 - speed*20 of playLevel
\* are positive for every speed of 1..10 and get smaller as the speed gets
\* larger; and no playback that runs, or flash that was emitted, has an
\* on-time or a gap of zero or less.
C11_TempoPositiveDecreasing ==
    /\ \A s \in 1..10 : LevelOnTime(s) > 0 /\ LevelDelayTime(s) > 0
    /\ \A s \in 1..9 :
          /\ LevelOnTime(s + 1) < LevelOnTime(s)
          /\ LevelDelayTime(s + 1) < LevelDelayTime(s)
    /\ InPlayback => onTime > 0 /\ delayTime > 0
    /\ InPlayback /\ phase = "Level" =>
          /\ onTime = LevelOnTime(speed)
          /\ delayTime = LevelDelayTime(speed)
    /\ \A j \in 1..Len(emitted) : emitted[j][2] > 0 /\ emitted[j][3] > 0

\* C11 witness: a level is played at speed 10, with the shortest on-time
\* and gap, 150 and 30, and its first flash is over.
C11_Witness ==
    /\ phase = "Level"
    /\ pc = "playSequence"
    /\ k = 1
    /\ speed = 10
    /\ onTime = 150
    /\ delayTime = 30

\* C12: the speed of a round is set once and then stays.  The only step
\* that changes speed is the one in which selectDifficulty takes the result
\* of its gesture; that step is taken once per round (no difficulty gesture
\* of the round has been taken before it, one has after it, and a round is
\* over only after one); and every level of the round is played at the tempo
\* of the speed that step has set.
C12_SpeedSetOncePerRound ==
    /\ [][/\ speed' # speed =>
                pc = "awaitReturned" /\ phase = "DifficultySelect"
          /\ pc = "awaitReturned" /\ phase = "DifficultySelect" /\ pc' # pc =>
                /\ chosen = -1
                /\ chosen' = buttonPressed
                /\ chosen' \in Controls
                /\ speed' \in SelectedSpeeds(chosen')
          /\ chosen' # chosen =>
                \/ pc = "awaitReturned" /\ phase = "DifficultySelect"
                \/ phase' = "Intro" /\ phase # "Intro" /\ chosen' = -1
          /\ pc = "playLevel" /\ pc' # pc =>
                /\ speed' = speed
                /\ onTime' = LevelOnTime(speed)
                /\ delayTime' = LevelDelayTime(speed)]_vars
    /\ [](phase \in {"Level", "GameOver"} =>
             chosen \in Controls /\ speed \in SelectedSpeeds(chosen))

\* C12 witness: the second level of a round whose auto difficulty drew speed
\* 7 is being played, at the tempo of speed 7.
C12_Witness ==
    /\ phase = "Level"
    /\ pc = "playSequenceLit"
    /\ sequenceLen = 2
    /\ k = 1
    /\ chosen = 3
    /\ speed = 7
    /\ onTime = LevelOnTime(7)

\* C13: the speed is an integer of 1..10 in every state: the initial 5
\* before the first selection, and whatever a selection has set.
C13_SpeedInRange ==
    /\ speed \in 1..10
    /\ chosen = -1 /\ sequenceLen = -1 => speed = 5
    /\ pc = "awaitReturned" /\ phase = "DifficultySelect" =>
          SelectedSpeeds(buttonPressed) \subseteq 1..10

\* C13 witness: auto difficulty has just drawn the speed 1 in a round after
\* the first.
C13_Witness ==
    /\ pc = "generateSequence"
    /\ chosen = 3
    /\ speed = 1
    /\ sequenceLen = 1

\* C15: whenever a Sequence exists, it has sequenceLen elements and every
\* one of them is a control index of 0..3: after generateSequence and after
\* every extendSequence.
C15_ElementsInRange ==
    /\ sequenceLen = -1 => sequence = <<>>
    /\ sequenceLen # -1 =>
          /\ sequenceLen >= 1
          /\ Len(sequence) = sequenceLen
          /\ DOMAIN sequence = 1..sequenceLen
          /\ \A j \in 1..sequenceLen : sequence[j] >= 0 /\ sequence[j] < NUM_LEDS
    /\ num # -1 => num >= 0 /\ num < NUM_LEDS

\* C15 witness: a Sequence made of the largest and the smallest control
\* index, the second one appended by extendSequence, is being replayed.
C15_Witness ==
    /\ pc = "replay"
    /\ sequence = <<3, 0>>
    /\ num = 0

\* C19: selectDifficulty reads GAME_SPEEDS only at an index of 0..2.  The
\* gesture returns a button of 0..3 (getButtonPressed reports -1..3, and a
\* press is never -1); button 3 takes the auto branch, and every other
\* button is an index of the table.
C19_PresetIndexInRange ==
    /\ \A r \in AnalogReadings :
          getButtonPressed(r) >= -1 /\ getButtonPressed(r) <= 3
    /\ pc \in {"awaitButtonRelease", "awaitReturned"} =>
          buttonPressed >= 0 /\ buttonPressed <= 3
    /\ pc = "awaitReturned" /\ phase = "DifficultySelect" /\ buttonPressed # 3 =>
          /\ buttonPressed \in 0..2
          /\ (buttonPressed + 1) \in DOMAIN GAME_SPEEDS
    /\ Len(GAME_SPEEDS) = 3

\* C19 witness: the difficulty gesture has returned button 2, the last
\* index of the table.
C19_Witness ==
    /\ pc = "awaitReturned"
    /\ phase = "DifficultySelect"
    /\ buttonPressed = 2

\* C20: only during a flash of a flourish is more than one LED on.  Every
\* LED is off when awaitButtonInput starts and while it waits for a press,
\* when a level has returned, between the flashes of a playback or of a
\* flourish and when they have finished; the one LED that is on during a
\* flash of a playback, or while a press is held, is the one of that element
\* or of that button.
C20_AtMostOneLED ==
    /\ led \subseteq Controls
    /\ pc # "LEDLightShowLit" => Cardinality(led) <= 1
    /\ pc = "LEDLightShowLit" => led = Controls
    /\ pc = "playSequenceLit" => led = {sequence[k + 1]}
    /\ pc = "awaitButtonRelease" => led = {buttonPressed}
    /\ pc \notin {"LEDLightShowLit", "playSequenceLit", "awaitButtonRelease"} =>
          led = {}

\* C20 witness: during the replay of a level the player holds button 1 and
\* LED 1 alone is on.
C20_Witness ==
    /\ phase = "Level"
    /\ pc = "awaitButtonRelease"
    /\ buttonPressed = 1
    /\ led = {1}
    /\ heldOver = "none"

\* C14: the first level of a round starts with a Sequence of length 1, and
\* in every level the level number, which is sequenceLen, is the length of
\* the Sequence and 1 plus the number of levels the round has completed; no
\* playback and no replay runs with a length below 1.
C14_LevelNumberIsLength ==
    /\ pc = "playLevel" /\ levelsDone = 0 => sequenceLen = 1
    /\ phase = "Level" /\ pc # "levelReturned" =>
          /\ sequenceLen = Len(sequence)
          /\ sequenceLen = 1 + levelsDone
    /\ pc = "levelReturned" =>
          /\ sequenceLen = Len(sequence)
          /\ sequenceLen = IF levelCompleted THEN levelsDone ELSE 1 + levelsDone
    /\ phase = "GameOver" => sequenceLen = 1 + levelsDone
    /\ InPlayback \/ InReplay => sequenceLen >= 1 /\ sequenceLen # -1

\* C14 witness: the first gesture of level 2 is awaited after one level was
\* completed.
C14_Witness ==
    /\ phase = "Level"
    /\ pc = "awaitButtonPress"
    /\ i = 0
    /\ sequenceLen = 2
    /\ levelsDone = 1

\* C16: an awaitButtonInput call invokes onPress once and then onRelease
\* once, both with the button it returns.  No callback is invoked before a
\* press is detected; onPress gets the button the poll reported at the
\* detection; onRelease is invoked in a step whose poll reports no button,
\* after that press.
C16_CallbacksOncePerGesture ==
    /\ [](/\ pc \in {"awaitButtonInput", "awaitHeldRelease", "awaitButtonPress"} =>
                calls = <<>>
          /\ pc = "awaitButtonRelease" =>
                calls = << <<"onPress", buttonPressed>> >>
          /\ pc = "awaitReturned" =>
                /\ buttonPressed \in Controls
                /\ calls = << <<"onPress", buttonPressed>>,
                              <<"onRelease", buttonPressed>> >>)
    /\ [][/\ calls' # calls /\ Len(calls') = 1 =>
                /\ pc = "awaitButtonPress"
                /\ getButtonPressed(analog) # -1
                /\ calls' = << <<"onPress", getButtonPressed(analog)>> >>
                /\ buttonPressed' = getButtonPressed(analog)
          /\ calls' # calls /\ Len(calls') = 2 =>
                /\ pc = "awaitButtonRelease"
                /\ getButtonPressed(analog) = -1
                /\ calls' = Append(calls, <<"onRelease", buttonPressed>>)
                /\ buttonPressed' = buttonPressed]_vars

\* C16 witness: a gesture of the replay on button 3 has returned.
C16_Witness ==
    /\ pc = "awaitReturned"
    /\ phase = "Level"
    /\ calls = << <<"onPress", 3>>, <<"onRelease", 3>> >>

\* C17: playSequence turns on and then off the LED of Sequence[0],
\* Sequence[1], ... in this order, one pair per element; between two pairs
\* as many LEDs were turned off as on; and the replay of a level begins only
\* when all sequenceLen elements have been turned on and off.
C17_PlaybackInOrder ==
    /\ pc = "playSequence" => Len(emitted) = k /\ Len(silenced) = k
    /\ pc = "playSequenceLit" => Len(emitted) = k + 1 /\ Len(silenced) = k
    /\ InPlayback =>
          /\ k <= sequenceLen
          /\ Len(emitted) <= sequenceLen
          /\ \A j \in 1..Len(emitted) : emitted[j][1] = sequence[j]
          /\ \A j \in 1..Len(silenced) : silenced[j] = sequence[j]
    /\ InReplay \/ pc \in {"levelReturned", "delay"} =>
          /\ Len(emitted) = sequenceLen
          /\ \A j \in 1..sequenceLen : emitted[j][1] = sequence[j]
          /\ silenced = sequence
    /\ InReplay => led \subseteq {buttonPressed}

\* C17 witness: a Sequence of two different elements has been played and
\* the replay loop of the level starts.
C17_Witness ==
    /\ pc = "replay"
    /\ i = 0
    /\ sequenceLen = 2
    /\ sequence[1] # sequence[2]
    /\ silenced = sequence

\* The positions of the flourishes and of the playbacks: LEDLightShow and
\* playSequence.
Presenting ==
    pc \in {"LEDLightShow", "LEDLightShowLit", "playSequence", "playSequenceLit"}

\* What a gesture decides: the speed, the replay cursor, the outcome of the
\* level, and the records of the gestures taken.
gestureVars ==
    <<speed, i, levelCompleted, buttonPressed, inputs, chosen, calls,
      sequence, sequenceLen>>

\* C18: input is taken at the gesture-await points only.  A step in which
\* the player presses or releases a button changes nothing but the reading
\* of the pin (and, inside awaitButtonInput, the record that a held-over
\* button was let go): outside awaitButtonInput a press followed by its
\* release leaves the state exactly as it was.  And while a flourish or a
\* playback runs, no step, whatever the player does, changes the speed, the
\* replay cursor, the outcome of a level or the gestures taken.
C18_NoInputOutsideAwait ==
    [][/\ analog' # analog =>
             /\ pc' = pc /\ phase' = phase /\ led' = led
             /\ UNCHANGED gestureVars
             /\ UNCHANGED <<flash, k, onTime, delayTime, emitted, reveals,
                            num, silenced, levelsDone>>
       /\ analog' # analog /\ ~Awaiting => heldOver' = heldOver
       /\ analog' # analog /\ getButtonPressed(analog) # -1 =>
             analog' = IdleReading
       /\ Presenting => UNCHANGED gestureVars
       /\ Presenting /\ analog' = analog =>
             pc' # pc /\ heldOver' = heldOver]_vars

\* C18 witness: while the first flash of a level's playback is on, the
\* player holds the button the Sequence begins with; no gesture has been
\* taken.
C18_Witness ==
    /\ phase = "Level"
    /\ pc = "playSequenceLit"
    /\ k = 0
    /\ getButtonPressed(analog) = sequence[1]
    /\ inputs = <<>>
    /\ calls = <<>>

==========================================================================
